---- MODULE Spec2Model ----
(***************************************************************************)
(* Model of the echo OpenTelemetry metrics middleware (otel-meter.go):     *)
(* the per-request instrumentation hook Metrics.handlerFunc, the status    *)
(* resolution it applies to handler errors, the instruments it records     *)
(* on, and the exporter handler serving the metrics path; the construction *)
(* of instances by New in one process, with the registries, the views and  *)
(* the meter provider it sets up; and the legacy Prometheus.HandlerFunc.   *)
(***************************************************************************)
EXTENDS Bags, FiniteSets, Integers, Sequences, TLC

\* ------------------------------------------------------------------ bounds
\* number of requests the dispatcher hands to the middleware (concurrently)
MaxReqs == 2
\* the clock stops after this many milliseconds
MaxTime == 2
\* the width of an int in bits
IntBits == 16

Reqs == 1..MaxReqs

\* ------------------------------------------------------- program constants
StatusOK == 200
StatusNotFound == 404
StatusInternalServerError == 500
\* time.Millisecond, the clock counting microseconds
Millisecond == 1000

defaultMetricPath == "/metrics"

\* semconv.go: attribute keys and instrument names
URLScheme == "url.scheme"
ServerAddress == "server.address"
HttpRoute == "http.route"
HttpRequestMethod == "http.request.method"
HttpResponseStatusCode == "http.response.status_code"

MetricRequests == "requests"
MetricHTTPServerRequestDuration == "http.server.request.duration"
MetricHTTPServerActiveRequests == "http.server.active_requests"
MetricHTTPServerRequestBodySize == "http.server.request.body.size"
MetricHTTPServerResponseBodySize == "http.server.response.body.size"

\* ------------------------------------------------------------------ errors
\* An error value is its chain as errors.Unwrap walks it: <<>> is nil, each
\* element is either an *echo.HTTPError with its Code or any other error.
HTTPError(code) == [kind |-> "HTTPError", Code |-> code]
PlainError == [kind |-> "error", Code |-> 0]
NilError == <<>>

\* errors.As(err, &httpError): the first *echo.HTTPError of the chain, as a
\* sequence of length 0 (none) or 1
RECURSIVE ErrorsAs(_)
ErrorsAs(err) ==
    IF err = <<>> THEN <<>>
    ELSE IF Head(err).kind = "HTTPError" THEN <<Head(err)>>
    ELSE ErrorsAs(Tail(err))

\* the status-code label: lines 252-262 of handlerFunc
ResolveStatus_NoAs(respStatus, err) ==
    LET s1 == IF err # NilError /\ Head(err).kind = "HTTPError"
              THEN Head(err).Code ELSE respStatus
    IN IF err # NilError /\ (s1 = 0 \/ s1 = StatusOK)
       THEN StatusInternalServerError ELSE s1

ResolveStatus_ZeroOnly(respStatus, err) ==
    LET s1 == IF err # NilError /\ ErrorsAs(err) # <<>>
              THEN ErrorsAs(err)[1].Code ELSE respStatus
    IN IF err # NilError /\ s1 = 0
       THEN StatusInternalServerError ELSE s1

ResolveStatus_ForceAlways(respStatus, err) ==
    LET s1 == IF err # NilError /\ ErrorsAs(err) # <<>>
              THEN ErrorsAs(err)[1].Code ELSE respStatus
    IN IF s1 = 0 \/ s1 = StatusOK
       THEN StatusInternalServerError ELSE s1

ResolveStatus_ErrIs500(respStatus, err) ==
    LET s1 == IF err # NilError /\ ErrorsAs(err) # <<>>
              THEN ErrorsAs(err)[1].Code ELSE respStatus
    IN IF err # NilError /\ (ErrorsAs(err) = <<>> \/ s1 = 0 \/ s1 = StatusOK)
       THEN StatusInternalServerError ELSE s1

ResolveStatus(respStatus, err) ==
    LET s1 == IF err # NilError /\ ErrorsAs(err) # <<>>
              THEN ErrorsAs(err)[1].Code ELSE respStatus
    IN IF err # NilError /\ (s1 = 0 \/ s1 = StatusOK)
       THEN StatusInternalServerError ELSE s1

\* ---------------------------------------------------------------- requests
\* The router: the route template echo matched for a URL path; the empty
\* string when no route matched (c.Path() in the 404 case).
Routes == {"/metrics", "/test", "/test_ignore"}
Router(urlPath) == IF urlPath \in Routes THEN urlPath ELSE ""

Methods == {"GET", "POST"}
URLPaths == {"/ping", "/metrics", "/test", "/test_ignore"}

\* URLIsNil says that r.URL is nil; URLPath is r.URL.Path otherwise
MkRequest(method, urlPath) ==
    [Method |-> method, URLIsNil |-> FALSE, URLPath |-> urlPath,
     Proto |-> "HTTP/1.1", Header |-> ("Accept" :> <<"*/*">>),
     Host |-> "example.com", ContentLength |-> 0, Scheme |-> "http"]

Requests == {MkRequest(m, p) : m \in Methods, p \in URLPaths}

\* the same requests over every host and scheme
AllRequests ==
    {[MkRequest(m, p) EXCEPT !.Host = h, !.Scheme = s] :
        m \in Methods, p \in URLPaths,
        h \in {"example.com", "api.example.com"}, s \in {"http", "https"}}

\* sum of the lengths of the strings of a sequence
RECURSIVE SumLen(_)
SumLen(values) ==
    IF values = <<>> THEN 0 ELSE Len(Head(values)) + SumLen(Tail(values))

\* the header loop of computeApproximateRequestSize
RECURSIVE HeaderSize(_, _)
HeaderSize(header, names) ==
    IF names = {} THEN 0
    ELSE LET name == CHOOSE n \in names : TRUE
         IN Len(name) + SumLen(header[name]) + HeaderSize(header, names \ {name})

\* Go's int, IntBits wide here: a sum that leaves the range wraps around
MaxInt == 2 ^ (IntBits - 1) - 1
MinInt == -(2 ^ (IntBits - 1))
WrapInt(x) == ((x - MinInt) % (2 ^ IntBits)) + MinInt

computeApproximateRequestSize(r) ==
    LET s == (IF ~r.URLIsNil THEN Len(r.URLPath) ELSE 0)
             + Len(r.Method) + Len(r.Proto)
             + HeaderSize(r.Header, DOMAIN r.Header) + Len(r.Host)
    IN IF r.ContentLength # -1 THEN WrapInt(s + r.ContentLength) ELSE s

\* the echo context the dispatcher builds for a request: the matched route
\* and a response reset to status 200, size 0
NewContext(req) ==
    [Request |-> req, Path |-> Router(req.URLPath),
     Response |-> [Status |-> StatusOK, Size |-> 0]]

NoContext == NewContext(MkRequest("", ""))

\* ----------------------------------------------------------- configuration
\* A Skipper is the set of routes it answers true for; NoSkipper is nil.
NoSkipper == {"nil"}
DefaultSkipper == {}
IgnoreSkipper == {"/test_ignore"}

\* A label mapping function is named; "" is nil.
DefaultURLLabelMapping_URLPath(c) == c.Request.URLPath

DefaultURLLabelMapping(c) == c.Path

DefaultHostLabelMapping(c) == c.Request.Host

\* a caller-supplied mapping collapsing every route below /test
CustomURLLabelMapping(c) == IF c.Path = "" THEN "" ELSE "/test*"

ApplyLabelMapping(name, c) ==
    CASE name = "default.url" -> DefaultURLLabelMapping(c)
      [] name = "default.host" -> DefaultHostLabelMapping(c)
      [] name = "custom.url" -> CustomURLLabelMapping(c)

\* A registry, a Registerer and a Gatherer are named by the registry they
\* stand for; NilRegistry is nil, DefaultRegistry is the one behind
\* prometheus.DefaultRegisterer and prometheus.DefaultGatherer.
NilRegistry == ""
DefaultRegistry == "default"
DefaultRegisterer == DefaultRegistry
DefaultGatherer == DefaultRegistry
CustomRegistries == {"A", "B"}
Registries == {DefaultRegistry} \cup CustomRegistries

MiddlewareConfigs ==
    [Skipper : {NoSkipper, IgnoreSkipper},
     ServiceName : {""},
     Namespace : {""},
     MetricsPath : {""},
     RequestCounterURLLabelMappingFunc : {"", "custom.url"},
     RequestCounterHostLabelMappingFunc : {""},
     Registry : {NilRegistry},
     Registerer : {NilRegistry},
     Gatherer : {NilRegistry}]

\* lines 134-144 of New: the Registerer and the Gatherer the middleware uses
ResolveRegisterer_CallerFirst(config) ==
    IF config.Registerer # NilRegistry THEN config.Registerer
    ELSE IF config.Registry # NilRegistry THEN config.Registry
    ELSE DefaultRegisterer

ResolveRegisterer(config) ==
    LET registerer == IF config.Registry # NilRegistry THEN config.Registry
                      ELSE config.Registerer
    IN IF registerer = NilRegistry THEN DefaultRegisterer ELSE registerer

ResolveGatherer(config) ==
    LET gatherer == IF config.Registry # NilRegistry THEN config.Registry
                    ELSE config.Gatherer
    IN IF gatherer = NilRegistry THEN DefaultGatherer ELSE gatherer

\* New: the defaults it fills in (lines 126-158)
New(config) ==
    [Skipper |-> IF config.Skipper = NoSkipper THEN DefaultSkipper
                 ELSE config.Skipper,
     MetricsPath |-> IF config.MetricsPath = "" THEN defaultMetricPath
                     ELSE config.MetricsPath,
     RequestCounterURLLabelMappingFunc |->
         IF config.RequestCounterURLLabelMappingFunc = "" THEN "default.url"
         ELSE config.RequestCounterURLLabelMappingFunc,
     RequestCounterHostLabelMappingFunc |->
         IF config.RequestCounterHostLabelMappingFunc = "" THEN "default.host"
         ELSE config.RequestCounterHostLabelMappingFunc,
     ServiceName |-> config.ServiceName,
     Namespace |-> config.Namespace,
     Registry |-> config.Registry,
     Registerer |-> ResolveRegisterer(config),
     Gatherer |-> ResolveGatherer(config)]

\* -------------------------------------------------------------- attributes
\* An attribute set maps each key to its value.
CommonAttributes_RawPath(ctx, status, h, url) ==
    (URLScheme :> ctx.Request.Scheme)
    @@ (HttpResponseStatusCode :> status)
    @@ (HttpRequestMethod :> ctx.Request.Method)
    @@ (ServerAddress :> h)
    @@ (HttpRoute :> ctx.Request.URLPath)

CommonAttributes_NoServerAddress(ctx, status, h, url) ==
    (URLScheme :> ctx.Request.Scheme)
    @@ (HttpResponseStatusCode :> status)
    @@ (HttpRequestMethod :> ctx.Request.Method)
    @@ (HttpRoute :> url)

\* commonAttributes (lines 269-275)
CommonAttributes(ctx, status, h, url) ==
    (URLScheme :> ctx.Request.Scheme)
    @@ (HttpResponseStatusCode :> status)
    @@ (HttpRequestMethod :> ctx.Request.Method)
    @@ (ServerAddress :> h)
    @@ (HttpRoute :> url)

\* the attributes of the in-flight counter (lines 248 and 290)
ActiveAttributes(ctx, h) ==
    (HttpRequestMethod :> ctx.Request.Method)
    @@ (ServerAddress :> h)
    @@ (URLScheme :> ctx.Request.Scheme)

\* ------------------------------------------------------------- instruments
\* one call on an instrument, as the aggregation engine receives it; the
\* value is num/den
Call(inst, num, den, attrs) ==
    [inst |-> inst, num |-> num, den |-> den, attrs |-> attrs]

\* the call of the wrapped handler and the return to the dispatcher, kept in
\* the same per-request log as the instrument calls
NextCall == Call("next", 0, 1, <<>>)
ReturnCall == Call("return", 0, 1, <<>>)

\* Int64Counter.Add: a counter is the bag of the attribute sets added to it
CounterAdd(counter, incr, attrs) == counter (+) [a \in {attrs} |-> incr]

\* Int64UpDownCounter.Add: a series per attribute set, zero included
UpDownAdd(counter, incr, attrs) ==
    IF attrs \in DOMAIN counter
    THEN [counter EXCEPT ![attrs] = @ + incr]
    ELSE counter @@ (attrs :> incr)

\* Histogram.Record: a histogram is the bag of the points recorded on it
HistogramRecord_Lossy(histogram, num, den, attrs) ==
    SetToBag(BagToSet(histogram)
             \cup {[attrs |-> attrs, num |-> num, den |-> den]})

HistogramRecord(histogram, num, den, attrs) ==
    histogram (+) SetToBag({[attrs |-> attrs, num |-> num, den |-> den]})

\* the aggregation engine taking one call
ApplyCall(m, k) ==
    CASE k.inst = MetricRequests ->
           [m EXCEPT !.requests = CounterAdd(@, k.num, k.attrs)]
      [] k.inst = MetricHTTPServerActiveRequests ->
           [m EXCEPT !.activeRequests = UpDownAdd(@, k.num, k.attrs)]
      [] k.inst = MetricHTTPServerRequestDuration ->
           [m EXCEPT !.reqDuration = HistogramRecord(@, k.num, k.den, k.attrs)]
      [] k.inst = MetricHTTPServerRequestBodySize ->
           [m EXCEPT !.reqSize = HistogramRecord(@, k.num, k.den, k.attrs)]
      [] k.inst = MetricHTTPServerResponseBodySize ->
           [m EXCEPT !.resSize = HistogramRecord(@, k.num, k.den, k.attrs)]
      [] OTHER -> m

\* the aggregation engine taking a sequence of calls, in order
RECURSIVE ApplyCalls(_, _)
ApplyCalls(m, calls) ==
    IF calls = <<>> THEN m
    ELSE ApplyCalls(ApplyCall(m, Head(calls)), Tail(calls))

\* ------------------------------------------------------------------- views
\* A bucket boundary is the rational num/den.
Boundary(num, den) == [num |-> num, den |-> den]

KB == 1024
MB == 1048576

\* the boundaries in seconds, written in thousandths
InSeconds(thousandths) ==
    [i \in 1..Len(thousandths) |-> Boundary(thousandths[i], 1000)]

InBytes(bytes) == [i \in 1..Len(bytes) |-> Boundary(bytes[i], 1)]

reqDurBucketsSeconds ==
    InSeconds(<<5, 10, 25, 50, 100, 250, 500, 1000, 2500, 5000, 10000>>)

longExecBucketsSeconds ==
    InSeconds(<<500, 1000, 1500, 2500, 5000, 10000, 15000, 25000, 40000,
                60000, 90000, 120000, 150000, 200000, 250000, 300000>>)

byteBuckets ==
    InBytes(<<1 * KB, 2 * KB, 5 * KB, 10 * KB, 100 * KB, 500 * KB,
              1 * MB, (5 * MB) \div 2, 5 * MB, 10 * MB>>)

\* the instruments New creates (lines 164-223): name, kind and unit
Instrument(name, kind, unit) == [Name |-> name, Kind |-> kind, Unit |-> unit]

MiddlewareInstruments ==
    {Instrument(MetricRequests, "Counter", ""),
     Instrument(MetricHTTPServerActiveRequests, "UpDownCounter", ""),
     Instrument(MetricHTTPServerRequestDuration, "Histogram", "s"),
     Instrument(MetricHTTPServerRequestBodySize, "Histogram", "By"),
     Instrument(MetricHTTPServerResponseBodySize, "Histogram", "By")}

InstrumentNamed(name) == CHOOSE i \in MiddlewareInstruments : i.Name = name

\* A view: the instrument criteria (the name pattern "*" followed by Suffix,
\* and a kind, "" for any) and the boundaries of its stream (<<>> for none).
View(suffix, kind, boundaries) ==
    [Suffix |-> suffix, Kind |-> kind, Boundaries |-> boundaries]

\* what the wildcard of a pattern may stand for in an instrument name of the
\* middleware or of the application
NamePrefixes ==
    {"", "http.server.", "http.server.request.", "http.server.response.",
     "http.server.active_", "http.server.request.body.",
     "http.server.response.body.", "job.", "job.long_", "rpc.client.",
     "request"}

\* the name pattern "*suffix" matches the instrument name
MatchName(suffix, name) ==
    suffix = "" \/ \E prefix \in NamePrefixes : prefix \o suffix = name

Matches(view, inst) ==
    /\ MatchName(view.Suffix, inst.Name)
    /\ view.Kind = "" \/ view.Kind = inst.Kind

\* lines 327-368: the views, in the order they are handed to the provider
Views_SizeOnDuration ==
    <<View("long_exec.cost", "", longExecBucketsSeconds),
      View("exec.cost", "", reqDurBucketsSeconds),
      View("request.duration", "", byteBuckets),
      View("body.size", "", byteBuckets),
      View("", "Counter", <<>>)>>

Views ==
    <<View("long_exec.cost", "", longExecBucketsSeconds),
      View("exec.cost", "", reqDurBucketsSeconds),
      View("request.duration", "", reqDurBucketsSeconds),
      View("body.size", "", byteBuckets),
      View("", "Counter", <<>>)>>

\* the boundary sets of the streams the provider makes for an instrument:
\* one stream per matching view, the default stream when no view matches;
\* <<>> stands for the aggregation the engine picks by itself
StreamBoundaries(views, inst) ==
    LET matching == {i \in 1..Len(views) : Matches(views[i], inst)}
    IN IF matching = {} THEN {<<>>}
       ELSE {views[i].Boundaries : i \in matching}

\* the le values a scrape shows for an instrument
ExposedBuckets(inst) ==
    UNION {{b[i] : i \in 1..Len(b)} : b \in StreamBoundaries(Views, inst)}

\* ------------------------------------------------------------------- state
VARIABLES
    config,          \* the MiddlewareConfig New left on the Metrics instance
    now,             \* the clock, in microseconds
    pc,              \* per request: idle, pending, bypass, done, panicked
    c,               \* per request: its echo context
    start,           \* per request: time.Now() at entry
    reqSz,           \* per request: computeApproximateRequestSize at entry
    host,            \* per request: the host label resolved at entry
    err,             \* per request: what next(c) returned
    ret,             \* per request: what the middleware returned
    obs,             \* per request: the calls the middleware made for it
    requests,        \* p.requests
    activeRequests,  \* p.activeRequests
    reqDuration,     \* p.reqDuration
    reqSize,         \* p.reqSz
    resSize,         \* p.resSz
    lastScrape       \* what the exporter handler last served

\* the process the middleware instances are constructed in
VARIABLES
    registries,           \* per registry: the collectors registered with it
    globalMeterProvider,  \* what otel.GetMeterProvider returns; 0 at start
    meterDelegate,        \* the provider the package's meter delegates to
    providers,            \* the meter providers made, each with its exporter
    metrics,              \* the Metrics instances New returned
    panics,               \* the constructions that panicked, by cause
    handled,              \* the instances that handled a request, in order
    served,               \* what an ExporterHandler last served
    streams               \* per instrument created: its streams' boundaries

instruments == <<requests, activeRequests, reqDuration, reqSize, resSize>>
locals == <<start, reqSz, host>>
process == <<registries, globalMeterProvider, meterDelegate, providers,
             metrics, panics, handled, served, streams>>
vars == <<config, now, pc, c, start, reqSz, host, err, ret, obs,
          requests, activeRequests, reqDuration, reqSize, resSize, lastScrape,
          registries, globalMeterProvider, meterDelegate, providers,
          metrics, panics, handled, served, streams>>

\* Gatherer.Gather: what the registry holds
Gather ==
    [requests |-> requests, activeRequests |-> activeRequests,
     reqDuration |-> reqDuration, reqSize |-> reqSize, resSize |-> resSize]

\* the instruments after the engine took the calls
Recorded(calls) ==
    LET m == ApplyCalls(Gather, calls)
    IN /\ requests' = m.requests
       /\ activeRequests' = m.activeRequests
       /\ reqDuration' = m.reqDuration
       /\ reqSize' = m.reqSize
       /\ resSize' = m.resSize

Init ==
    /\ config \in {New(cfg) : cfg \in MiddlewareConfigs}
    /\ now = 0
    /\ pc = [r \in Reqs |-> "idle"]
    /\ c = [r \in Reqs |-> NoContext]
    /\ start = [r \in Reqs |-> 0]
    /\ reqSz = [r \in Reqs |-> 0]
    /\ host = [r \in Reqs |-> ""]
    /\ err = [r \in Reqs |-> NilError]
    /\ ret = [r \in Reqs |-> NilError]
    /\ obs = [r \in Reqs |-> <<>>]
    /\ requests = EmptyBag
    /\ activeRequests = <<>>
    /\ reqDuration = EmptyBag
    /\ reqSize = EmptyBag
    /\ resSize = EmptyBag
    /\ lastScrape = [code |-> 0, body |-> Gather]
    /\ registries = [g \in Registries |-> {}]
    /\ globalMeterProvider = 0
    /\ meterDelegate = 0
    /\ providers = <<>>
    /\ metrics = <<>>
    /\ panics = <<>>
    /\ handled = <<>>
    /\ served = [by |-> 0, code |-> 0, body |-> {}]
    /\ streams = <<>>

\* ----------------------------------------------------------------- handlers
\* What a wrapped handler leaves behind when it returns: the response's
\* status and size, the error it returns, and the request method if it
\* rewrote it ("" when it left the request alone).
Outcome(status, size, e, method) ==
    [Status |-> status, Size |-> size, err |-> e, Method |-> method]

\* echo's NotFoundHandler: nothing written, ErrNotFound returned
NotFoundOutcome == Outcome(StatusOK, 0, <<HTTPError(StatusNotFound)>>, "")

\* ExporterHandler (lines 375-386): promhttp writes the body, nil returned
ExporterOutcome == Outcome(StatusOK, 1, NilError, "")

\* handlers of the tests: c.JSON(200), c.JSON(409), NewHTTPError(502), and a
\* handler failing with an untyped error after writing
UserOutcomes ==
    {Outcome(StatusOK, 2, NilError, ""),
     Outcome(409, 3, NilError, ""),
     Outcome(StatusOK, 0, <<HTTPError(502)>>, ""),
     Outcome(409, 3, <<PlainError>>, "")}

Statuses == {0, StatusOK, StatusNotFound, 409}
Sizes == {0, 5}
Codes == {0, StatusOK, 409, 502}
ErrorElems == {PlainError} \cup {HTTPError(code) : code \in Codes}
Errors ==
    {NilError}
    \cup {<<e>> : e \in ErrorElems}
    \cup {<<PlainError, e>> : e \in ErrorElems}
    \cup {<<HTTPError(StatusOK), HTTPError(409)>>,
          <<HTTPError(502), HTTPError(409)>>,
          <<HTTPError(409), PlainError>>}

AllOutcomes ==
    {Outcome(s, z, e, m) : s \in Statuses, z \in Sizes, e \in Errors,
                           m \in {"", "DELETE"}}

\* the outcomes of the handler the router picked for a route
HandlerOutcomes(route, userOutcomes) ==
    IF route = "" THEN {NotFoundOutcome}
    ELSE IF route = defaultMetricPath THEN {ExporterOutcome}
    ELSE userOutcomes

\* the context after the handler ran
AfterHandler(ctx, out) ==
    [ctx EXCEPT !.Response = [Status |-> out.Status, Size |-> out.Size],
                !.Request.Method = IF out.Method = "" THEN @ ELSE out.Method]

\* ------------------------------------------------------------- handlerFunc
\* lines 236-241: the request is handed to next(c) unmeasured
Bypass_NoSkipper(cfg, ctx) == ctx.Path = cfg.MetricsPath

Bypass(cfg, ctx) == ctx.Path = cfg.MetricsPath \/ ctx.Path \in cfg.Skipper

\* lines 247-250: the in-flight counter at entry, then next(c)
EntryCalls_NoIncrement(ctx, h) == <<NextCall>>

EntryCalls(ctx, h) ==
    <<Call(MetricHTTPServerActiveRequests, 1, 1, ActiveAttributes(ctx, h)),
      NextCall>>

\* line 264: elapsed := time.Since(start) / time.Millisecond
Elapsed_NoDivision(t0, t1) == t1 - t0

Elapsed(t0, t1) == (t1 - t0) \div Millisecond

\* lines 277-290: the calls made once next(c) has returned
ExitCalls_NoDecrement(ctx, status, elapsed, sz, h, url) ==
    LET commonAttributes == CommonAttributes(ctx, status, h, url)
    IN <<Call(MetricHTTPServerRequestDuration, elapsed, 1000, commonAttributes),
         Call(MetricRequests, 1, 1, commonAttributes),
         Call(MetricHTTPServerRequestBodySize, sz, 1, commonAttributes),
         Call(MetricHTTPServerResponseBodySize, ctx.Response.Size, 1,
              commonAttributes)>>

ExitCalls_CounterFirst(ctx, status, elapsed, sz, h, url) ==
    LET commonAttributes == CommonAttributes(ctx, status, h, url)
    IN <<Call(MetricRequests, 1, 1, commonAttributes),
         Call(MetricHTTPServerRequestDuration, elapsed, 1000, commonAttributes),
         Call(MetricHTTPServerRequestBodySize, sz, 1, commonAttributes),
         Call(MetricHTTPServerResponseBodySize, ctx.Response.Size, 1,
              commonAttributes),
         Call(MetricHTTPServerActiveRequests, -1, 1, ActiveAttributes(ctx, h))>>

ExitCalls_SizeAtExit(ctx, status, elapsed, sz, h, url) ==
    LET commonAttributes == CommonAttributes(ctx, status, h, url)
    IN <<Call(MetricHTTPServerRequestDuration, elapsed, 1000, commonAttributes),
         Call(MetricRequests, 1, 1, commonAttributes),
         Call(MetricHTTPServerRequestBodySize,
              computeApproximateRequestSize(ctx.Request), 1, commonAttributes),
         Call(MetricHTTPServerResponseBodySize, ctx.Response.Size, 1,
              commonAttributes),
         Call(MetricHTTPServerActiveRequests, -1, 1, ActiveAttributes(ctx, h))>>

ExitCalls(ctx, status, elapsed, sz, h, url) ==
    LET commonAttributes == CommonAttributes(ctx, status, h, url)
    IN <<Call(MetricHTTPServerRequestDuration, elapsed, 1000, commonAttributes),
         Call(MetricRequests, 1, 1, commonAttributes),
         Call(MetricHTTPServerRequestBodySize, sz, 1, commonAttributes),
         Call(MetricHTTPServerResponseBodySize, ctx.Response.Size, 1,
              commonAttributes),
         Call(MetricHTTPServerActiveRequests, -1, 1, ActiveAttributes(ctx, h))>>

\* line 291: return err
ReturnValue_Swallow(e) == NilError

ReturnValue(e) == e

\* The dispatcher invokes the middleware for request r (lines 235-250, up to
\* and including the call of next).
Entry(r, req) ==
    /\ pc[r] = "idle"
    /\ r > 1 => pc[r - 1] # "idle"
    /\ LET ctx == NewContext(req) IN
       /\ c' = [c EXCEPT ![r] = ctx]
       /\ IF Bypass(config, ctx)
          THEN /\ pc' = [pc EXCEPT ![r] = "bypass"]
               /\ obs' = [obs EXCEPT ![r] = <<NextCall>>]
               /\ UNCHANGED <<locals, instruments>>
          ELSE LET h == ApplyLabelMapping(
                            config.RequestCounterHostLabelMappingFunc, ctx)
                   calls == EntryCalls(ctx, h)
               IN /\ pc' = [pc EXCEPT ![r] = "pending"]
                  /\ start' = [start EXCEPT ![r] = now]
                  /\ reqSz' = [reqSz EXCEPT ![r] =
                                   computeApproximateRequestSize(ctx.Request)]
                  /\ host' = [host EXCEPT ![r] = h]
                  /\ obs' = [obs EXCEPT ![r] = calls]
                  /\ Recorded(calls)
    /\ UNCHANGED <<config, now, err, ret, lastScrape, process>>

\* next(c) returns on the measured path and the middleware runs to its
\* return (lines 250-291).
Exit(r, out) ==
    /\ pc[r] = "pending"
    /\ LET ctx == AfterHandler(c[r], out)
           status == ResolveStatus(ctx.Response.Status, out.err)
           elapsed == Elapsed(start[r], now)
           url == ApplyLabelMapping(
                      config.RequestCounterURLLabelMappingFunc, ctx)
           calls == ExitCalls(ctx, status, elapsed, reqSz[r], host[r], url)
       IN /\ c' = [c EXCEPT ![r] = ctx]
          /\ err' = [err EXCEPT ![r] = out.err]
          /\ obs' = [obs EXCEPT ![r] = @ \o calls \o <<ReturnCall>>]
          /\ Recorded(calls)
          /\ ret' = [ret EXCEPT ![r] = ReturnValue(out.err)]
    /\ pc' = [pc EXCEPT ![r] = "done"]
    /\ UNCHANGED <<config, now, locals, lastScrape, process>>

\* next(c) returns on the bypass path: return next(c) (lines 237 and 240);
\* the exporter handler serves what the gatherer holds.
BypassExit(r, out) ==
    /\ pc[r] = "bypass"
    /\ c' = [c EXCEPT ![r] = AfterHandler(c[r], out)]
    /\ err' = [err EXCEPT ![r] = out.err]
    /\ ret' = [ret EXCEPT ![r] = ReturnValue(out.err)]
    /\ obs' = [obs EXCEPT ![r] = @ \o <<ReturnCall>>]
    /\ lastScrape' = IF c[r].Path = defaultMetricPath
                     THEN [code |-> out.Status, body |-> Gather]
                     ELSE lastScrape
    /\ pc' = [pc EXCEPT ![r] = "done"]
    /\ UNCHANGED <<config, now, locals, instruments, process>>

\* The wrapped handler panics: the middleware's frame is unwound at the call
\* of next (line 250 or 237/240) and nothing after it runs.
HandlerPanics(r) ==
    /\ pc[r] \in {"pending", "bypass"}
    /\ c[r].Path \notin {"", defaultMetricPath}
    /\ pc' = [pc EXCEPT ![r] = "panicked"]
    /\ UNCHANGED <<config, now, c, locals, err, ret, obs, instruments,
                   lastScrape, process>>

\* time passes
Tick(d) ==
    /\ now + d <= MaxTime * Millisecond
    /\ now' = now + d
    /\ UNCHANGED <<config, pc, c, locals, err, ret, obs, instruments,
                   lastScrape, process>>

TickSteps == {400, 1000}

\* Requests handled concurrently by one middleware instance.
Next ==
    \/ \E r \in Reqs, req \in Requests : Entry(r, req)
    \/ \E r \in Reqs :
         \E out \in HandlerOutcomes(c[r].Path, UserOutcomes) : Exit(r, out)
    \/ \E r \in Reqs :
         \E out \in HandlerOutcomes(c[r].Path, UserOutcomes) : BypassExit(r, out)
    \/ \E r \in Reqs : HandlerPanics(r)

Spec == Init /\ [][Next]_vars

\* One request at a time, every request and every outcome a handler can
\* leave behind.
NextSolo ==
    \/ \E req \in AllRequests : Entry(1, req)
    \/ \E out \in HandlerOutcomes(c[1].Path, AllOutcomes) : Exit(1, out)
    \/ \E out \in HandlerOutcomes(c[1].Path, AllOutcomes) : BypassExit(1, out)
    \/ HandlerPanics(1)

SpecSolo == Init /\ [][NextSolo]_vars

\* ------------------------------------------- Prometheus.HandlerFunc (legacy)
\* opentelemetry-meter.go: the instruments of the legacy middleware, the
\* duration in milliseconds
LegacyReqCnt == "requests_total"
LegacyReqDur == "request_duration"
LegacyResSz == "response_size"
LegacyReqSz == "request_size"

\* the attributes "code", "method", "url" of the three histograms
LegacyAttributes_NoUrl(ctx, status, url) ==
    ("code" :> status) @@ ("method" :> ctx.Request.Method)

LegacyAttributes(ctx, status, url) ==
    ("code" :> status) @@ ("method" :> ctx.Request.Method) @@ ("url" :> url)

\* lines 307-343: elapsed := float64(time.Since(start)) /
\* float64(time.Millisecond), recorded as it is, and the other three calls
LegacyExitCalls(ctx, status, t0, t1, sz, h, url) ==
    LET attrs == LegacyAttributes(ctx, status, url)
    IN <<Call(LegacyReqDur, t1 - t0, Millisecond, attrs),
         Call(LegacyReqCnt, 1, 1, attrs @@ ("host" :> h)),
         Call(LegacyReqSz, sz, 1, attrs),
         Call(LegacyResSz, ctx.Response.Size, 1, attrs)>>

\* lines 283-294: the legacy middleware is invoked for request r and calls
\* next
LegacyEntry(r, req) ==
    /\ pc[r] = "idle"
    /\ LET ctx == NewContext(req) IN
       /\ c' = [c EXCEPT ![r] = ctx]
       /\ obs' = [obs EXCEPT ![r] = <<NextCall>>]
       /\ IF Bypass(config, ctx)
          THEN /\ pc' = [pc EXCEPT ![r] = "bypass"]
               /\ UNCHANGED locals
          ELSE /\ pc' = [pc EXCEPT ![r] = "legacy"]
               /\ start' = [start EXCEPT ![r] = now]
               /\ reqSz' = [reqSz EXCEPT ![r] =
                                computeApproximateRequestSize(ctx.Request)]
               /\ UNCHANGED host
    /\ UNCHANGED <<config, now, err, ret, instruments, lastScrape, process>>

\* lines 294-345: next returned to the legacy middleware, which runs to its
\* return
LegacyExit(r, out) ==
    /\ pc[r] = "legacy"
    /\ LET ctx == AfterHandler(c[r], out)
           status == ResolveStatus(ctx.Response.Status, out.err)
           url == ApplyLabelMapping(
                      config.RequestCounterURLLabelMappingFunc, ctx)
           h == ApplyLabelMapping(
                    config.RequestCounterHostLabelMappingFunc, ctx)
           calls == LegacyExitCalls(ctx, status, start[r], now, reqSz[r], h, url)
       IN /\ c' = [c EXCEPT ![r] = ctx]
          /\ err' = [err EXCEPT ![r] = out.err]
          /\ obs' = [obs EXCEPT ![r] = @ \o calls \o <<ReturnCall>>]
          /\ ret' = [ret EXCEPT ![r] = ReturnValue(out.err)]
    /\ pc' = [pc EXCEPT ![r] = "done"]
    /\ UNCHANGED <<config, now, locals, instruments, lastScrape, process>>

\* One request at a time through either middleware, the clock running.
NextTimed ==
    \/ \E req \in Requests : Entry(1, req)
    \/ \E out \in HandlerOutcomes(c[1].Path, UserOutcomes) : Exit(1, out)
    \/ \E out \in HandlerOutcomes(c[1].Path, UserOutcomes) : BypassExit(1, out)
    \/ HandlerPanics(1)
    \/ \E req \in Requests : LegacyEntry(1, req)
    \/ \E out \in HandlerOutcomes(c[1].Path, UserOutcomes) : LegacyExit(1, out)
    \/ \E d \in TickSteps : Tick(d)

SpecTimed == Init /\ [][NextTimed]_vars

\* Requests as any caller of the middleware may build them: the URL absent,
\* no header, a header with two values, two headers, no host, and a declared
\* content length that is unknown (-1), zero, positive, below -1, or as large
\* as an int.
SizeHeaders ==
    {<<>>,
     "Accept" :> <<"*/*", "text/html">>,
     ("Accept" :> <<"*/*">>) @@ ("X-Id" :> <<"7">>)}

ContentLengths == {-1, 0, 5, -2, -100, MaxInt}

SizeRequests ==
    {[MkRequest("GET", path) EXCEPT !.URLIsNil = (path = ""), !.Header = hd,
                                    !.Host = h, !.ContentLength = n] :
        path \in {"", "/test"}, hd \in SizeHeaders,
        h \in {"", "example.com"}, n \in ContentLengths}

\* One request at a time, of every shape the size estimate distinguishes.
NextSize ==
    \/ \E req \in SizeRequests : Entry(1, req)
    \/ \E out \in HandlerOutcomes(c[1].Path, UserOutcomes) : Exit(1, out)

SpecSize == Init /\ [][NextSize]_vars

\* ================================================================== claims
\* the request was dispatched and the claim's precondition for measuring it
\* holds: its route is not the metrics path and the Skipper answers false
IsMeasured(r) ==
    /\ pc[r] # "idle"
    /\ c[r].Path # config.MetricsPath
    /\ c[r].Path \notin config.Skipper

\* the request was dispatched and is exempt from measurement
IsBypassed(r) ==
    /\ pc[r] # "idle"
    /\ (c[r].Path = config.MetricsPath \/ c[r].Path \in config.Skipper)

\* the calls made for request r on one instrument, in order
CallsOn(r, inst) == SelectSeq(obs[r], LAMBDA k : k.inst = inst)

\* the calls made for request r that carry a status-code label
StatusCalls(r) ==
    SelectSeq(obs[r], LAMBDA k : HttpResponseStatusCode \in DOMAIN k.attrs)

RecordingInstruments ==
    {MetricRequests, MetricHTTPServerRequestDuration,
     MetricHTTPServerRequestBodySize, MetricHTTPServerResponseBodySize}

\* the label set a completed request resolves to: its method, the resolved
\* status code, the results of the two mapping functions, and its scheme
ResolvedLabels(r) ==
    (HttpRequestMethod :> c[r].Request.Method)
    @@ (HttpResponseStatusCode :> ResolveStatus(c[r].Response.Status, err[r]))
    @@ (HttpRoute :>
          ApplyLabelMapping(config.RequestCounterURLLabelMappingFunc, c[r]))
    @@ (ServerAddress :>
          ApplyLabelMapping(config.RequestCounterHostLabelMappingFunc, c[r]))
    @@ (URLScheme :> c[r].Request.Scheme)

Completed == {r \in Reqs : IsMeasured(r) /\ pc[r] = "done"}

\* the sum of an up/down counter over all its series
RECURSIVE SumSeries(_, _)
SumSeries(counter, keys) ==
    IF keys = {} THEN 0
    ELSE LET k == CHOOSE x \in keys : TRUE
         IN counter[k] + SumSeries(counter, keys \ {k})

InFlight == SumSeries(activeRequests, DOMAIN activeRequests)

\* the number of points a histogram holds for one attribute set
RECURSIVE CountPoints(_, _, _)
CountPoints(histogram, points, attrs) ==
    IF points = {} THEN 0
    ELSE LET p == CHOOSE x \in points : TRUE
         IN (IF p.attrs = attrs THEN CopiesIn(p, histogram) ELSE 0)
            + CountPoints(histogram, points \ {p}, attrs)

HistogramCount(histogram, attrs) ==
    CountPoints(histogram, BagToSet(histogram), attrs)

C2_BypassedSteps ==
    \A r \in Reqs :
       (IsBypassed(r)' /\ pc'[r] # pc[r]) => UNCHANGED instruments

C2_BypassedState ==
    \A r \in Reqs : IsBypassed(r) =>
       /\ \A i \in 1..Len(obs[r]) : obs[r][i].inst \in {"next", "return"}
       /\ Len(CallsOn(r, "next")) = 1
       /\ pc[r] = "done" => ret[r] = err[r]

\* C2: always, a bypassed request has no instrument call, one call of next
\* and the handler's result returned; and none of its steps changes an
\* instrument.
C2_SkippedRequestsRecordNothing ==
    []C2_BypassedState /\ [][C2_BypassedSteps]_vars

\* a skipped request and a scrape have both completed
C2_Witness ==
    \E r, q \in Reqs :
       /\ IsBypassed(r) /\ pc[r] = "done" /\ c[r].Path \in config.Skipper
       /\ IsBypassed(q) /\ pc[q] = "done" /\ c[q].Path = config.MetricsPath

\* C3: when the error the handler returned is or wraps an *echo.HTTPError
\* (the one errors.As finds) whose Code is neither 0 nor 200, every call made
\* for the request that carries a status-code label carries that Code, and
\* there are four of them, whatever status the response holds.
C3_TypedErrorCode ==
    \A r \in Reqs :
       (/\ IsMeasured(r) /\ pc[r] = "done"
        /\ ErrorsAs(err[r]) # <<>>
        /\ ErrorsAs(err[r])[1].Code \notin {0, StatusOK})
       => /\ Len(StatusCalls(r)) = 4
          /\ \A i \in 1..Len(StatusCalls(r)) :
               StatusCalls(r)[i].attrs[HttpResponseStatusCode]
                 = ErrorsAs(err[r])[1].Code

\* a wrapped HTTPError 409 returned after the response was given status 404
C3_Witness ==
    \E r \in Reqs :
       /\ IsMeasured(r) /\ pc[r] = "done"
       /\ err[r] = <<PlainError, HTTPError(409)>>
       /\ c[r].Response.Status = StatusNotFound
       /\ StatusCalls(r)[1].attrs[HttpResponseStatusCode] = 409

\* C4 as claimed: an error that carries no HTTP status is recorded as 500
\* for every status the response may hold.
C4_UntypedErrorAlways500 ==
    \A r \in Reqs :
       (/\ IsMeasured(r) /\ pc[r] = "done"
        /\ err[r] # NilError /\ ErrorsAs(err[r]) = <<>>)
       => \A i \in 1..Len(StatusCalls(r)) :
             StatusCalls(r)[i].attrs[HttpResponseStatusCode]
               = StatusInternalServerError

\* C4 as amended: an error that carries no HTTP status is recorded as 500
\* when the response's status is 0 or 200 at the handler's return, and as
\* the response's status otherwise.
C4_UntypedError500UnlessWritten ==
    \A r \in Reqs :
       (/\ IsMeasured(r) /\ pc[r] = "done"
        /\ err[r] # NilError /\ ErrorsAs(err[r]) = <<>>)
       => /\ Len(StatusCalls(r)) = 4
          /\ \A i \in 1..Len(StatusCalls(r)) :
               StatusCalls(r)[i].attrs[HttpResponseStatusCode]
                 = IF c[r].Response.Status \in {0, StatusOK}
                   THEN StatusInternalServerError
                   ELSE c[r].Response.Status

\* an untyped error over a response still at 200, recorded as 500
C4_Witness ==
    \E r \in Reqs :
       /\ IsMeasured(r) /\ pc[r] = "done"
       /\ err[r] = <<PlainError>>
       /\ c[r].Response.Status = StatusOK
       /\ StatusCalls(r)[1].attrs[HttpResponseStatusCode]
            = StatusInternalServerError

\* C5: a measured request whose handler returned a non-nil error is never
\* recorded with status 0 or 200.
C5_ErrorNeverSuccess ==
    \A r \in Reqs :
       (IsMeasured(r) /\ pc[r] = "done" /\ err[r] # NilError)
       => /\ Len(StatusCalls(r)) = 4
          /\ \A i \in 1..Len(StatusCalls(r)) :
               StatusCalls(r)[i].attrs[HttpResponseStatusCode]
                 \notin {0, StatusOK}

\* an HTTPError carrying code 200 over a response at 200
C5_Witness ==
    \E r \in Reqs :
       /\ IsMeasured(r) /\ pc[r] = "done"
       /\ err[r] = <<HTTPError(StatusOK)>>
       /\ c[r].Response.Status = StatusOK
       /\ StatusCalls(r)[1].attrs[HttpResponseStatusCode] \notin {0, StatusOK}

\* C6: when the handler returned nil, the recorded status is the response's
\* final status verbatim, 0 and 200 included.
C6_NilErrorStatusVerbatim ==
    \A r \in Reqs :
       (IsMeasured(r) /\ pc[r] = "done" /\ err[r] = NilError)
       => /\ Len(StatusCalls(r)) = 4
          /\ \A i \in 1..Len(StatusCalls(r)) :
               StatusCalls(r)[i].attrs[HttpResponseStatusCode]
                 = c[r].Response.Status

\* a handler that returned nil and left the status at 0
C6_Witness ==
    \E r \in Reqs :
       /\ IsMeasured(r) /\ pc[r] = "done"
       /\ err[r] = NilError
       /\ c[r].Response.Status = 0
       /\ StatusCalls(r)[1].attrs[HttpResponseStatusCode] = 0

\* C7: what the middleware returns to the dispatcher is what the wrapped
\* handler returned, on the measured path and on the bypass path.
C7_ErrorReturnedUnchanged ==
    \A r \in Reqs : pc[r] = "done" => ret[r] = err[r]

\* a measured request whose handler failed with HTTPError 502
C7_Witness ==
    \E r \in Reqs :
       /\ IsMeasured(r) /\ pc[r] = "done"
       /\ err[r] = <<HTTPError(502)>>
       /\ ret[r] = <<HTTPError(502)>>

\* C8: for a measured request whose handler returned, the in-flight counter
\* got exactly one +1, before next was called, and exactly one -1, after it;
\* while no request is pending or lost to a panic the counter sums to zero.
C8_InFlightNetsToZero ==
    /\ \A r \in Reqs : (IsMeasured(r) /\ pc[r] = "done") =>
         LET calls == CallsOn(r, MetricHTTPServerActiveRequests)
         IN /\ Len(calls) = 2
            /\ calls[1].num = 1 /\ calls[2].num = -1
            /\ obs[r][1] = calls[1]
            /\ obs[r][2] = NextCall
            /\ obs[r][Len(obs[r]) - 1] = calls[2]
    /\ (\A r \in Reqs : IsMeasured(r) => pc[r] = "done") => InFlight = 0

\* a measured request whose handler returned an error has left
C8_Witness ==
    \E r \in Reqs :
       /\ IsMeasured(r) /\ pc[r] = "done" /\ err[r] # NilError
       /\ Len(CallsOn(r, MetricHTTPServerActiveRequests)) = 2
       /\ InFlight = 0

\* C9 as claimed: whichever way the wrapped handler exits, a panic included,
\* the request's -1 is applied and its duration and status are recorded, so
\* the in-flight counter is back at zero once no request is pending.
C9_EveryExitPathDecrements ==
    (\A r \in Reqs : pc[r] \notin {"pending", "bypass"}) =>
       /\ InFlight = 0
       /\ \A r \in Reqs : IsMeasured(r) =>
            Len(CallsOn(r, MetricHTTPServerRequestDuration)) = 1

\* C10: a request that matched no route is measured like any other: with the
\* default route mapping, one call on each of the counter and the three
\* histograms, with route "", status 404 and the request's method, and the
\* router's not-found error handed back; a scrape answers 200 and shows the
\* counter and the duration series of such requests at their number.
C10_UnmatchedState ==
    \A r \in Reqs :
       (/\ pc[r] = "done" /\ c[r].Path = ""
        /\ config.RequestCounterURLLabelMappingFunc = "default.url")
       => /\ \A inst \in RecordingInstruments :
               /\ Len(CallsOn(r, inst)) = 1
               /\ CallsOn(r, inst)[1].attrs[HttpRoute] = ""
               /\ CallsOn(r, inst)[1].attrs[HttpResponseStatusCode]
                    = StatusNotFound
               /\ CallsOn(r, inst)[1].attrs[HttpRequestMethod]
                    = c[r].Request.Method
          /\ ret[r] = <<HTTPError(StatusNotFound)>>

C10_ScrapeStep ==
    (/\ \E q \in Reqs : /\ c[q].Path = config.MetricsPath
                        /\ pc[q] = "bypass" /\ pc'[q] = "done"
     /\ config.RequestCounterURLLabelMappingFunc = "default.url")
    => /\ lastScrape'.code = StatusOK
       /\ \A r \in Reqs : (pc[r] = "done" /\ c[r].Path = "") =>
            LET n == Cardinality({q \in Reqs :
                       /\ pc[q] = "done" /\ c[q].Path = ""
                       /\ c[q].Request.Method = c[r].Request.Method})
                a == ResolvedLabels(r)
            IN /\ a[HttpRoute] = ""
               /\ a[HttpResponseStatusCode] = StatusNotFound
               /\ CopiesIn(a, lastScrape'.body.requests) = n
               /\ HistogramCount(lastScrape'.body.reqDuration, a) = n

\* C10: always, an unmatched request that returned was recorded once per
\* instrument under route "", status 404 and its method; and every scrape
\* answers 200 and shows those series at the number of such requests.
C10_UnmatchedRouteMeasured ==
    []C10_UnmatchedState /\ [][C10_ScrapeStep]_vars

\* one GET to an unmatched path, then a scrape showing its series at 1
C10_Witness ==
    \E r, q \in Reqs :
       /\ pc[r] = "done" /\ c[r].Path = "" /\ c[r].Request.Method = "GET"
       /\ pc[q] = "done" /\ c[q].Path = config.MetricsPath
       /\ config.RequestCounterURLLabelMappingFunc = "default.url"
       /\ lastScrape.code = StatusOK
       /\ CopiesIn(ResolvedLabels(r), lastScrape.body.requests) = 1
       /\ HistogramCount(lastScrape.body.reqDuration, ResolvedLabels(r)) = 1

\* ================================================================= process
\* Constructions of middleware instances in one process, the requests the
\* instances handle and the scrapes their exporter handlers serve.
MaxInstances == 2
MaxHandled == 1

request_vars == <<config, now, pc, c, start, reqSz, host, err, ret, obs,
                  requests, activeRequests, reqDuration, reqSize, resSize,
                  lastScrape>>

\* a MiddlewareConfig that leaves all but the registry handles and the names
\* at their zero values
ConfigWith(registry, registerer, gatherer, namespace, serviceName) ==
    [Skipper |-> NoSkipper, ServiceName |-> serviceName,
     Namespace |-> namespace, MetricsPath |-> "",
     RequestCounterURLLabelMappingFunc |-> "",
     RequestCounterHostLabelMappingFunc |-> "",
     Registry |-> registry, Registerer |-> registerer, Gatherer |-> gatherer]

\* the configurations New accepts: every combination of the three registry
\* handles set or unset, and those that name the metrics
AllConfigs ==
    {ConfigWith(registry, registerer, gatherer, "", "") :
        registry \in {NilRegistry} \cup CustomRegistries,
        registerer \in {NilRegistry, "A"}, gatherer \in {NilRegistry, "A"}}
    \cup {ConfigWith(registry, NilRegistry, NilRegistry, "myapp", "") :
            registry \in {NilRegistry} \cup CustomRegistries}
    \cup {ConfigWith(NilRegistry, NilRegistry, NilRegistry, "", "my-app")}

\* the configurations of instances that share a process: the default
\* registry with and without a namespace, a registry of their own, and a
\* Registerer alone
BootConfigs ==
    {ConfigWith(NilRegistry, NilRegistry, NilRegistry, "", ""),
     ConfigWith(NilRegistry, NilRegistry, NilRegistry, "myapp", ""),
     ConfigWith("A", NilRegistry, NilRegistry, "", ""),
     ConfigWith("B", NilRegistry, NilRegistry, "", ""),
     ConfigWith(NilRegistry, "A", NilRegistry, "", "")}

\* the names the configurations use, as the characters they are made of
NameChars ==
    ("" :> <<>>)
    @@ ("myapp" :> <<"m", "y", "a", "p", "p">>)
    @@ ("my-app" :> <<"m", "y", "-", "a", "p", "p">>)
    @@ ("my-ns" :> <<"m", "y", "-", "n", "s">>)
    @@ ("my-echo-app" :>
          <<"m", "y", "-", "e", "c", "h", "o", "-", "a", "p", "p">>)

\* the string made of a sequence of characters
RECURSIVE Str(_)
Str(chars) == IF chars = <<>> THEN "" ELSE Head(chars) \o Str(Tail(chars))

ReplaceAll_First(chars, old, new) ==
    [i \in 1..Len(chars) |->
        IF chars[i] = old /\ (\A j \in 1..(i - 1) : chars[j] # old)
        THEN new ELSE chars[i]]

\* strings.ReplaceAll over the characters of a string
ReplaceAll(chars, old, new) ==
    [i \in 1..Len(chars) |-> IF chars[i] = old THEN new ELSE chars[i]]

\* line 300: strings.ReplaceAll(namespace, "-", "_")
ReplaceDashes(name) == Str(ReplaceAll(NameChars[name], "-", "_"))

\* lines 296-300: the namespace of the exporter
ExporterNamespace(cfg) ==
    ReplaceDashes(IF cfg.Namespace = "" THEN cfg.ServiceName
                  ELSE cfg.Namespace)

\* lines 164-223: the creations whose error New checks, panicking on it; the
\* error of Int64UpDownCounter (lines 193-196) is overwritten unread
CheckedCreations ==
    {MetricRequests, MetricHTTPServerRequestDuration,
     MetricHTTPServerRequestBodySize, MetricHTTPServerResponseBodySize}

InstrumentNames == {i.Name : i \in MiddlewareInstruments}

\* the creations that fail in one construction: none, or one of the five
CreationFailures == {{}} \cup {{name} : name \in InstrumentNames}

\* what a meter provider holds before any call
NoData ==
    [requests |-> EmptyBag, activeRequests |-> <<>>, reqDuration |-> EmptyBag,
     reqSize |-> EmptyBag, resSize |-> EmptyBag]

\* the streams of a provider once the instruments insts exist: an instrument
\* gets its streams from the views when it is created and keeps them
WithStreams(held, insts) ==
    LET names == DOMAIN held \cup {i.Name : i \in insts}
    IN [name \in names |->
          IF name \in DOMAIN held THEN held[name]
          ELSE StreamBoundaries(Views,
                                CHOOSE i \in insts : i.Name = name)]

\* New(cfg) as a whole (lines 125-227 and 295-373). The creations in fails
\* return an error; registerErr is the registry refusing the exporter's
\* collector, which it may do when a collector of the same namespace is
\* registered with it already.
Construct(cfg, fails, registerErr) ==
    /\ Len(metrics) + Len(panics) < MaxInstances
    /\ LET p == New(cfg)
           id == Len(providers) + 1
           namespace == ExporterNamespace(p)
           collides == \E e \in registries[p.Registerer] :
                          providers[e].namespace = namespace
           delegate == IF meterDelegate = 0 THEN id ELSE meterDelegate
       IN IF fails \cap CheckedCreations # {}
          THEN /\ panics' = Append(panics, "instrument")
               /\ UNCHANGED <<registries, globalMeterProvider, meterDelegate,
                              providers, metrics, streams>>
          ELSE IF registerErr /\ collides
          THEN /\ panics' = Append(panics, "exporter")
               /\ UNCHANGED <<registries, globalMeterProvider, meterDelegate,
                              providers, metrics, streams>>
          ELSE /\ registries' = [registries EXCEPT ![p.Registerer] = @ \cup {id}]
               /\ providers' = Append(providers, [namespace |-> namespace,
                                                  serviceName |-> p.ServiceName,
                                                  data |-> NoData])
               /\ globalMeterProvider' = id
               /\ meterDelegate' = delegate
               /\ metrics' = Append(metrics, [given |-> cfg, config |-> p,
                                              meter |-> delegate,
                                              exporter |-> id, failed |-> fails])
               /\ streams' = WithStreams(streams,
                                         {InstrumentNamed(name) :
                                             name \in InstrumentNames \ fails})
               /\ UNCHANGED panics
    /\ UNCHANGED <<handled, served, request_vars>>

\* the request of the tests, answered by the router's not-found handler
BootRequests == {MkRequest("GET", "/ping")}

\* Instance i handles one measured request from entry to return (lines
\* 235-291); its calls reach the provider its instruments belong to, those on
\* an instrument whose creation failed reach none.
Handle(i, req, out) ==
    /\ i \in 1..Len(metrics)
    /\ Len(handled) < MaxHandled
    /\ LET m == metrics[i]
           ctx0 == NewContext(req)
           h == ApplyLabelMapping(m.config.RequestCounterHostLabelMappingFunc,
                                  ctx0)
           ctx == AfterHandler(ctx0, out)
           status == ResolveStatus(ctx.Response.Status, out.err)
           url == ApplyLabelMapping(m.config.RequestCounterURLLabelMappingFunc,
                                    ctx)
           calls == EntryCalls(ctx0, h)
                    \o ExitCalls(ctx, status, Elapsed(now, now),
                                 computeApproximateRequestSize(req), h, url)
           live == SelectSeq(calls, LAMBDA k : k.inst \notin m.failed)
       IN /\ ~Bypass(m.config, ctx0)
          /\ providers' = [providers EXCEPT ![m.meter].data =
                               ApplyCalls(@, live)]
    /\ handled' = Append(handled, i)
    /\ UNCHANGED <<registries, globalMeterProvider, meterDelegate, metrics,
                   panics, served, streams, request_vars>>

\* the series the exporter of provider e collects: the resource's target_info
\* and one series per attribute set of each instrument that holds data
Series(e) ==
    LET d == providers[e].data
        S(inst, labels, count, le) ==
            [exporter |-> e, namespace |-> providers[e].namespace,
             inst |-> inst, labels |-> labels, count |-> count, le |-> le]
        H(inst, histogram) ==
            {S(inst, pt.attrs, HistogramCount(histogram, pt.attrs),
               ExposedBuckets(InstrumentNamed(inst))) :
                 pt \in BagToSet(histogram)}
    IN {S("target_info",
          ("service.name" :> providers[e].serviceName)
          @@ ("service.namespace" :> providers[e].namespace), 1, {})}
       \cup {S(MetricRequests, a, CopiesIn(a, d.requests), {}) :
               a \in BagToSet(d.requests)}
       \cup {S(MetricHTTPServerActiveRequests, a, d.activeRequests[a], {}) :
               a \in DOMAIN d.activeRequests}
       \cup H(MetricHTTPServerRequestDuration, d.reqDuration)
       \cup H(MetricHTTPServerRequestBodySize, d.reqSize)
       \cup H(MetricHTTPServerResponseBodySize, d.resSize)

\* Gatherer.Gather: what the collectors registered with a registry collect
Collect(registry) == UNION {Series(e) : e \in registries[registry]}

\* two collectors collected a series of the same name and labels
Duplicates(body) ==
    \E s, t \in body :
       /\ s.exporter # t.exporter
       /\ s.namespace = t.namespace /\ s.inst = t.inst /\ s.labels = t.labels

\* ExporterHandler of instance i serves a scrape (lines 375-386): what its
\* Gatherer gathers, or the gathering error as a 500
Scrape(i) ==
    /\ i \in 1..Len(metrics)
    /\ LET body == Collect(metrics[i].config.Gatherer)
       IN served' = IF Duplicates(body)
                    THEN [by |-> i, code |-> StatusInternalServerError,
                          body |-> {}]
                    ELSE [by |-> i, code |-> StatusOK, body |-> body]
    /\ UNCHANGED <<registries, globalMeterProvider, meterDelegate, providers,
                   metrics, panics, handled, streams, request_vars>>

NextBoot ==
    \/ \E cfg \in BootConfigs, fails \in CreationFailures,
          registerErr \in BOOLEAN : Construct(cfg, fails, registerErr)
    \/ \E i \in 1..MaxInstances, req \in BootRequests :
         \E out \in HandlerOutcomes(Router(req.URLPath), UserOutcomes) :
            Handle(i, req, out)
    \/ \E i \in 1..MaxInstances : Scrape(i)

\* the process starts with no instance constructed
InitBoot ==
    /\ Init
    /\ config = New(ConfigWith(NilRegistry, NilRegistry, NilRegistry, "", ""))

SpecBoot == InitBoot /\ [][NextBoot]_vars

\* Constructions alone, over every configuration New accepts, every
\* creation succeeding.
NextConfig == \E cfg \in AllConfigs : Construct(cfg, {}, FALSE)

SpecConfig == InitBoot /\ [][NextConfig]_vars

\* ----------------------------------------------- the selector of otelmetric
\* otelmetric/opentelemetry-meter.go: the boundaries of that revision
reqDurBuckets ==
    InSeconds(<<5, 10, 25, 50, 100, 250, 500, 1000, 2500, 5000, 10000>>)

reqSzBuckets ==
    InBytes(<<1 * KB, 2 * KB, 5 * KB, 10 * KB, 100 * KB, 500 * KB,
              1 * MB, (5 * MB) \div 2, 5 * MB, 10 * MB>>)

\* selectorHistogram.AggregatorFor: the boundaries of a histogram by the
\* unit of its descriptor, options being those the selector was made with;
\* <<>> for an aggregator that has no buckets
AggregatorFor(kind, unit, options) ==
    IF kind = "Histogram"
    THEN CASE unit = "ms" -> reqDurBuckets
           [] unit = "By" -> reqSzBuckets
           [] OTHER -> options
    ELSE <<>>

\* the descriptors registerMetrics of that revision creates
LegacyInstruments ==
    {Instrument("requests_total", "Counter", "1"),
     Instrument("request_duration_seconds", "Histogram", "ms"),
     Instrument("response_size_bytes", "Histogram", "By"),
     Instrument("request_size_bytes", "Histogram", "By")}

\* ============================================================ claims, cont.
\* C12: when the handler returns, one value is recorded on the duration
\* histogram: in seconds (otel-meter.go) it is elapsed/1000, elapsed being
\* the whole milliseconds between entry and the handler's return; in
\* milliseconds (the legacy middleware) it is the time between entry and the
\* handler's return in milliseconds; in both it is not negative.
C12_ExitStep ==
    \A r \in Reqs :
       /\ (pc[r] = "pending" /\ pc'[r] = "done") =>
            LET calls == CallsOn(r, MetricHTTPServerRequestDuration)'
                elapsed_us == now - start[r]
            IN /\ Len(calls) = 1
               /\ calls[1].num = elapsed_us \div Millisecond
               /\ calls[1].den = 1000
               /\ calls[1].num >= 0
               /\ CopiesIn([attrs |-> calls[1].attrs, num |-> calls[1].num,
                             den |-> 1000], reqDuration') >= 1
       /\ (pc[r] = "legacy" /\ pc'[r] = "done") =>
            LET calls == CallsOn(r, LegacyReqDur)'
                elapsed_us == now - start[r]
            IN /\ Len(calls) = 1
               /\ calls[1].num * 1000 = elapsed_us * calls[1].den
               /\ calls[1].num >= 0 /\ calls[1].den > 0

C12_DurationIsElapsed == [][C12_ExitStep]_vars

\* a request that took 1400 microseconds was recorded as 1/1000 s
C12_Witness ==
    \E r \in Reqs :
       /\ pc[r] = "done" /\ IsMeasured(r) /\ start[r] = 400
       /\ Len(CallsOn(r, MetricHTTPServerRequestDuration)) = 1
       /\ CallsOn(r, MetricHTTPServerRequestDuration)[1].num = 1
       /\ CallsOn(r, MetricHTTPServerRequestDuration)[1].den = 1000

\* two boundaries are the same number
SameBoundary(a, b) ==
    /\ a.num \div a.den = b.num \div b.den
    /\ (a.num % a.den) * b.den = (b.num % b.den) * a.den

Range(seq) == {seq[i] : i \in 1..Len(seq)}

HasBoundary(le, b) == \E x \in le : SameBoundary(x, b)

\* no boundary of the one set is a boundary of the other
Disjoint(le, boundaries) ==
    \A x \in le : ~HasBoundary(Range(boundaries), x)

TimeClass == {MetricHTTPServerRequestDuration}
SizeClass ==
    {MetricHTTPServerRequestBodySize, MetricHTTPServerResponseBodySize}

\* C11: every duration series a scrape shows has the time boundaries (le
\* 0.005 among them, le 512000 not) and none of the byte boundaries; every
\* request-size and response-size series has the byte boundaries (le 1024 and
\* le 10240 among them, le 0.005 not) and none of the time boundaries; the
\* provider makes one stream for each of these instruments; and the
\* selector of the otelmetric revision gives a histogram in milliseconds the
\* time boundaries and a histogram in bytes the byte boundaries.
C11_BucketsByClass ==
    /\ \A s \in served.body :
         /\ s.inst \in TimeClass =>
              /\ s.le = Range(reqDurBucketsSeconds)
              /\ HasBoundary(s.le, Boundary(5, 1000))
              /\ ~HasBoundary(s.le, Boundary(512000, 1))
              /\ Disjoint(s.le, byteBuckets)
         /\ s.inst \in SizeClass =>
              /\ s.le = Range(byteBuckets)
              /\ HasBoundary(s.le, Boundary(1024, 1))
              /\ HasBoundary(s.le, Boundary(10240, 1))
              /\ ~HasBoundary(s.le, Boundary(5, 1000))
              /\ Disjoint(s.le, reqDurBucketsSeconds)
    /\ \A inst \in MiddlewareInstruments :
         /\ Cardinality(StreamBoundaries(Views, inst)) = 1
         /\ inst.Unit = "s" =>
              StreamBoundaries(Views, inst) = {reqDurBucketsSeconds}
         /\ inst.Unit = "By" => StreamBoundaries(Views, inst) = {byteBuckets}
    /\ \A inst \in LegacyInstruments :
         LET b == AggregatorFor(inst.Kind, inst.Unit, reqDurBuckets)
         IN /\ inst.Unit = "ms" => b = reqDurBuckets /\ Disjoint(Range(b), reqSzBuckets)
            /\ inst.Unit = "By" => b = reqSzBuckets /\ Disjoint(Range(b), reqDurBuckets)

\* an instance handled a request and its scrape showed the duration and the
\* two size histograms with their buckets
C11_Witness ==
    /\ served.code = StatusOK
    /\ \E s \in served.body :
         s.inst = MetricHTTPServerRequestDuration /\ s.count = 1
         /\ HasBoundary(s.le, Boundary(5, 1000))
    /\ \E s \in served.body :
         s.inst = MetricHTTPServerRequestBodySize /\ s.count = 1
         /\ HasBoundary(s.le, Boundary(10240, 1))
    /\ \E s \in served.body :
         s.inst = MetricHTTPServerResponseBodySize
         /\ HasBoundary(s.le, Boundary(10240, 1))

Colliding(registry) ==
    \E e1, e2 \in registries[registry] :
       e1 # e2 /\ providers[e1].namespace = providers[e2].namespace

\* C14 as claimed: constructing a further instance with the namespace of an
\* instance already registered with the same registry never panics on the
\* registration and never leaves two collectors of that namespace registered
\* at once, and no scrape fails on a duplicate series.
C14_SecondInstanceReplaces ==
    /\ "exporter" \notin Range(panics)
    /\ \A g \in Registries : ~Colliding(g)
    /\ served.code # StatusInternalServerError

\* C15 as claimed: whatever New was given, the Gatherer an instance serves
\* scrapes from is the registry its exporter was registered with.
C15_GathererIsRegisterer ==
    \A i \in 1..Len(metrics) :
       /\ metrics[i].config.Gatherer = metrics[i].config.Registerer
       /\ metrics[i].exporter \in registries[metrics[i].config.Gatherer]

\* the number of requests instance i handled
HandledBy(i) == Cardinality({k \in 1..Len(handled) : handled[k] = i})

\* the observations the registry of instance i shows under the names of
\* instance i: those its own exporter collects
OwnObservations(i) ==
    BagCardinality(providers[metrics[i].exporter].data.requests)

\* C16 as claimed: of two instances constructed with distinct caller-supplied
\* registries, each shows in its own registry, under its own names, exactly
\* the requests it handled itself.
C16_InstancesIsolated ==
    \A i, j \in 1..Len(metrics) :
       (/\ metrics[i].given.Registry # NilRegistry
        /\ metrics[j].given.Registry # NilRegistry
        /\ metrics[i].given.Registry # metrics[j].given.Registry)
       => OwnObservations(i) = HandledBy(i)

\* C17 as claimed: no instance New returned holds an instrument whose creation
\* failed.
C17_NoInstanceWithFailedInstrument ==
    \A i \in 1..Len(metrics) : metrics[i].failed = {}

\* the size the claim describes: the lengths of the path (0 without a URL),
\* the method, the protocol, each header name once and each header value,
\* and the host, plus the content length when it is not negative
RECURSIVE ClaimedHeaderSize(_, _)
ClaimedHeaderSize(header, names) ==
    IF names = {} THEN 0
    ELSE LET name == CHOOSE n \in names : TRUE
             values == header[name]
             OfValues[i \in 0..Len(values)] ==
                 IF i = 0 THEN 0 ELSE OfValues[i - 1] + Len(values[i])
         IN Len(name) + OfValues[Len(values)]
            + ClaimedHeaderSize(header, names \ {name})

ClaimedSize(r) ==
    (IF r.URLIsNil THEN 0 ELSE Len(r.URLPath))
    + Len(r.Method) + Len(r.Proto)
    + ClaimedHeaderSize(r.Header, DOMAIN r.Header) + Len(r.Host)
    + (IF r.ContentLength >= 0 THEN r.ContentLength ELSE 0)

\* C18 as claimed: the size taken at entry, and recorded on the request-size
\* histogram at exit, is the sum the claim describes, the content length
\* added if and only if it is not negative.
C18_SizeIsClaimedSum ==
    \A r \in Reqs :
       (IsMeasured(r) /\ pc[r] \in {"pending", "done"}) =>
          /\ reqSz[r] = ClaimedSize(c[r].Request)
          /\ pc[r] = "done" =>
               CallsOn(r, MetricHTTPServerRequestBodySize)[1].num
                 = ClaimedSize(c[r].Request)

\* C19 as claimed: the size taken for a request is never negative, whatever
\* its declared content length.
C19_SizeNeverNegative ==
    \A r \in Reqs :
       (IsMeasured(r) /\ pc[r] \in {"pending", "done"}) => reqSz[r] >= 0

\* the label a scrape shows for an attribute key: the key with "_" for "."
LabelName(key) ==
    CASE key = HttpRequestMethod -> "http_request_method"
      [] key = HttpResponseStatusCode -> "http_response_status_code"
      [] key = HttpRoute -> "http_route"
      [] key = ServerAddress -> "server_address"
      [] key = URLScheme -> "url_scheme"
      [] OTHER -> key

LabelNames(attrs) == {LabelName(key) : key \in DOMAIN attrs}

SemconvLabels ==
    {"http_request_method", "http_response_status_code", "http_route",
     "server_address", "url_scheme"}

TestLabels ==
    {"http_request_method", "http_response_status_code", "http_route",
     "url_scheme"}

\* C21: a scrape served by an instance built by New shows the series of the
\* request counter and of the duration and size histograms with exactly the
\* labels http_request_method, http_response_status_code, http_route and
\* url_scheme, and after one GET to an unmatched path it holds the duration
\* count series {GET, 404, "", http} with value 1.
C21_FourLabelSeries ==
    served.code = StatusOK =>
      /\ \A s \in served.body :
           s.inst \in RecordingInstruments => LabelNames(s.labels) = TestLabels
      /\ (/\ handled = <<served.by>>
          /\ metrics[served.by].meter = metrics[served.by].exporter
          /\ metrics[served.by].failed = {})
         => \E s \in served.body :
               /\ s.inst = MetricHTTPServerRequestDuration
               /\ s.labels = (HttpRequestMethod :> "GET")
                             @@ (HttpResponseStatusCode :> StatusNotFound)
                             @@ (HttpRoute :> "") @@ (URLScheme :> "http")
               /\ s.count = 1

\* opentelemetry-meter.go lines 60-102: the Args each Metric definition of
\* the legacy catalog declares
LegacyArgs(name) ==
    IF name = LegacyReqCnt THEN {"code", "method", "host", "url"}
    ELSE {"code", "method", "url"}

LegacyCatalog == {LegacyReqCnt, LegacyReqDur, LegacyResSz, LegacyReqSz}

\* C22: every Add/Record call of the legacy middleware carries exactly the
\* label names its instrument declares in Args - code, method, host, url on
\* the request counter and code, method, url on the three histograms - and a
\* request that went through it made one such call on each of the four.
C22_LegacyCallsCarryDeclaredArgs ==
    \A r \in Reqs :
       /\ \A i \in 1..Len(obs[r]) :
            obs[r][i].inst \in LegacyCatalog =>
               DOMAIN obs[r][i].attrs = LegacyArgs(obs[r][i].inst)
       /\ (\E i \in 1..Len(obs[r]) : obs[r][i].inst \in LegacyCatalog) =>
            \A name \in LegacyCatalog : Len(CallsOn(r, name)) = 1

\* a request went through the legacy middleware and its counter was
\* incremented with the four declared labels, the host among them
C22_Witness ==
    \E r \in Reqs :
       /\ pc[r] = "done"
       /\ Len(CallsOn(r, LegacyReqCnt)) = 1
       /\ CallsOn(r, LegacyReqCnt)[1].attrs["host"] = "example.com"
       /\ Len(CallsOn(r, LegacyReqDur)) = 1
       /\ DOMAIN CallsOn(r, LegacyReqDur)[1].attrs = {"code", "method", "url"}

\* ------------------------------------------------------------ exported names
\* the name of an instrument with "_" for ".", as the exporter writes it
SanitizedName(name) ==
    CASE name = MetricRequests -> "requests"
      [] name = MetricHTTPServerRequestDuration ->
           "http_server_request_duration"
      [] name = MetricHTTPServerActiveRequests -> "http_server_active_requests"
      [] name = MetricHTTPServerRequestBodySize ->
           "http_server_request_body_size"
      [] name = MetricHTTPServerResponseBodySize ->
           "http_server_response_body_size"

\* otel-meter.go lines 177-184: the suffix the exporter derives from the unit
UnitSuffix(unit) ==
    CASE unit = "1" -> "_ratio"
      [] unit = "By" -> "_bytes"
      [] unit = "ms" -> "_milliseconds"
      [] unit = "s" -> "_seconds"
      [] OTHER -> ""

\* lines 167-170: the exporter enforces the _total suffix on a counter
PrometheusName(inst) ==
    SanitizedName(inst.Name) \o UnitSuffix(inst.Unit)
    \o (IF inst.Kind = "Counter" THEN "_total" ELSE "")

\* lines 315-317: WithNamespace is passed only for a non-empty namespace
ExportedName(namespace, inst) ==
    IF namespace = "" THEN PrometheusName(inst)
    ELSE namespace \o "_" \o PrometheusName(inst)

\* the name a scrape shows for a series of a middleware instrument
SeriesName(s) == ExportedName(s.namespace, InstrumentNamed(s.inst))

\* configurations that differ in the names only
NameConfigs ==
    {ConfigWith(NilRegistry, NilRegistry, NilRegistry, p[1], p[2]) :
        p \in {<<"", "">>, <<"myapp", "">>, <<"", "my-app">>,
               <<"my-ns", "my-app">>, <<"", "my-echo-app">>}}

\* Instances that differ in Namespace and ServiceName, the requests they
\* handle and the scrapes they serve.
NextNames ==
    \/ \E cfg \in NameConfigs : Construct(cfg, {}, FALSE)
    \/ \E i \in 1..MaxInstances, req \in BootRequests :
         \E out \in HandlerOutcomes(Router(req.URLPath), UserOutcomes) :
            Handle(i, req, out)
    \/ \E i \in 1..MaxInstances : Scrape(i)

SpecNames == InitBoot /\ [][NextNames]_vars

\* the prefix the claim gives for each pair of Namespace and ServiceName
ClaimedPrefix(namespace, serviceName) ==
    CASE namespace = "myapp" -> "myapp"
      [] namespace = "my-ns" -> "my_ns"
      [] namespace = "" /\ serviceName = "my-app" -> "my_app"
      [] namespace = "" /\ serviceName = "my-echo-app" -> "my_echo_app"
      [] namespace = "" /\ serviceName = "" -> ""

\* C23: the exporter of every instance has as its prefix the configured
\* Namespace, or the ServiceName when Namespace is empty, with every "-"
\* replaced by "_"; a served series is named by its instrument's exported
\* name alone when the prefix is empty (http_server_request_duration_seconds,
\* requests_total) and by myapp_<name> when the prefix is "myapp".
C23_PrefixIsNamespaceOrServiceName ==
    /\ \A i \in 1..Len(metrics) :
         providers[metrics[i].exporter].namespace =
            ClaimedPrefix(metrics[i].given.Namespace,
                          metrics[i].given.ServiceName)
    /\ \A s \in served.body : s.inst \in InstrumentNames =>
         /\ s.namespace = "" =>
              /\ SeriesName(s) = PrometheusName(InstrumentNamed(s.inst))
              /\ s.inst = MetricHTTPServerRequestDuration =>
                   SeriesName(s) = "http_server_request_duration_seconds"
              /\ s.inst = MetricRequests => SeriesName(s) = "requests_total"
         /\ s.namespace = "myapp" =>
              /\ SeriesName(s) =
                   "myapp_" \o PrometheusName(InstrumentNamed(s.inst))
              /\ s.inst = MetricHTTPServerRequestDuration =>
                   SeriesName(s) = "myapp_http_server_request_duration_seconds"
              /\ s.inst = MetricRequests =>
                   SeriesName(s) = "myapp_requests_total"

\* an instance named by the service name "my-echo-app" alone exports under
\* my_echo_app, and a scrape of an instance with Namespace "myapp" shows the
\* duration histogram of a handled request under the myapp_ name
C23_Witness ==
    /\ \E i \in 1..Len(metrics) :
         /\ metrics[i].given.ServiceName = "my-echo-app"
         /\ providers[metrics[i].exporter].namespace = "my_echo_app"
    /\ served.code = StatusOK
    /\ \E s \in served.body :
         /\ s.inst = MetricHTTPServerRequestDuration
         /\ s.count = 1
         /\ SeriesName(s) = "myapp_http_server_request_duration_seconds"

\* C24: the step in which the handler of a measured request returns makes
\* exactly one Record on each of the duration, request-size and response-size
\* histograms and one Add on the request counter, none of them made before,
\* all four with the request's resolved label set; the request-size value is
\* the estimate of the request as it was at entry, the response-size value
\* the response's byte count after the handler; and a request that has
\* returned makes no further call.
C24_ExitStep ==
    \A r \in Reqs :
       /\ (pc[r] = "pending" /\ pc'[r] = "done") =>
            /\ \A inst \in RecordingInstruments :
                 /\ Len(CallsOn(r, inst)) = 0
                 /\ Len(CallsOn(r, inst)') = 1
                 /\ CallsOn(r, inst)'[1].attrs = ResolvedLabels(r)'
            /\ CallsOn(r, MetricHTTPServerRequestBodySize)'[1].num =
                 computeApproximateRequestSize(c[r].Request)
            /\ CallsOn(r, MetricHTTPServerResponseBodySize)'[1].num =
                 c'[r].Response.Size
            /\ CallsOn(r, MetricRequests)'[1].num = 1
       /\ pc[r] = "done" => (pc'[r] = "done" /\ obs'[r] = obs[r])

C24_RecordedExactlyOnce == [][C24_ExitStep]_vars

\* a request whose handler rewrote the method and wrote five bytes was
\* recorded once on each instrument, with the size estimated at entry
C24_Witness ==
    \E r \in Reqs :
       /\ IsMeasured(r) /\ pc[r] = "done"
       /\ c[r].Request.Method = "DELETE"
       /\ \A inst \in RecordingInstruments :
            /\ Len(CallsOn(r, inst)) = 1
            /\ CallsOn(r, inst)[1].attrs = ResolvedLabels(r)
       /\ CallsOn(r, MetricHTTPServerRequestBodySize)[1].num = reqSz[r]
       /\ reqSz[r] # computeApproximateRequestSize(c[r].Request)
       /\ CallsOn(r, MetricHTTPServerResponseBodySize)[1].num = 5

\* every request dispatched so far has returned
AllReturned == \A r \in Reqs : pc[r] \in {"idle", "done"}

\* the label sets the completed requests resolved to
CompletedLabels == {ResolvedLabels(r) : r \in Completed}

\* the attribute sets a histogram holds points for
HistogramLabels(histogram) == {pt.attrs : pt \in BagToSet(histogram)}

\* C25, the counts: under every interleaving of the requests of one
\* instance, once all of them have returned the value of each series of the
\* request counter and the count of each series of the three histograms is
\* the number of measured requests that resolved to its label set.
C25_CountsMatch ==
    AllReturned =>
      /\ \A a \in BagToSet(requests) \cup CompletedLabels :
           CopiesIn(a, requests) =
             Cardinality({r \in Completed : ResolvedLabels(r) = a})
      /\ \A h \in {reqDuration, reqSize, resSize} :
           \A a \in HistogramLabels(h) \cup CompletedLabels :
              HistogramCount(h, a) =
                Cardinality({r \in Completed : ResolvedLabels(r) = a})

\* C25, the shared state: a step of one request leaves what the other
\* requests hold (context, start time, size, host, error, return value,
\* calls made) and the configuration as they were.
C25_OwnStateOnly ==
    \A r, q \in Reqs :
       (q # r /\ pc'[r] # pc[r]) =>
          /\ pc'[q] = pc[q] /\ c'[q] = c[q] /\ start'[q] = start[q]
          /\ reqSz'[q] = reqSz[q] /\ host'[q] = host[q]
          /\ err'[q] = err[q] /\ ret'[q] = ret[q] /\ obs'[q] = obs[q]
          /\ config' = config

\* C25: no observation is lost, duplicated or attributed to another
\* request's labels, and the instruments are the only state requests share.
C25_NoLostObservation == [](C25_CountsMatch) /\ [][C25_OwnStateOnly]_vars

\* all requests were measured by the one instance and have returned, all
\* resolved to the same labels, and the series of the counter and of the
\* duration histogram count every one of them
C25_Witness ==
    /\ AllReturned /\ Completed = Reqs
    /\ \E a \in CompletedLabels :
         /\ \A r \in Reqs : ResolvedLabels(r) = a
         /\ HistogramCount(reqDuration, a) = MaxReqs
         /\ CopiesIn(a, requests) = MaxReqs

\* the instruments called for request r and the calls of next and return,
\* in the order they were made
CallOrder(r) == [i \in 1..Len(obs[r]) |-> obs[r][i].inst]

\* C26: the events of a measured request occur in this order: in-flight +1
\* (start time and request size being captured by then), the call of the
\* wrapped handler, and after its return the duration record, the counter
\* increment, the request-size record, the response-size record, in-flight
\* -1 and the return to the dispatcher; while the handler has not returned
\* none of the four observations has been made.
C26_EventsInProgramOrder ==
    \A r \in Reqs : IsMeasured(r) =>
       /\ pc[r] \in {"pending", "panicked"} =>
            /\ CallOrder(r) = <<MetricHTTPServerActiveRequests, "next">>
            /\ obs[r][1].num = 1
            /\ reqSz[r] = computeApproximateRequestSize(c[r].Request)
            /\ start[r] <= now
       /\ pc[r] = "done" =>
            /\ CallOrder(r) =
                 <<MetricHTTPServerActiveRequests, "next",
                   MetricHTTPServerRequestDuration, MetricRequests,
                   MetricHTTPServerRequestBodySize,
                   MetricHTTPServerResponseBodySize,
                   MetricHTTPServerActiveRequests, "return">>
            /\ obs[r][1].num = 1 /\ obs[r][7].num = -1

\* a measured request has returned, its eight events logged from the
\* in-flight +1 to the return
C26_Witness ==
    \E r \in Reqs :
       /\ IsMeasured(r) /\ pc[r] = "done"
       /\ Len(obs[r]) = 8
       /\ obs[r][2].inst = "next"
       /\ obs[r][3].inst = MetricHTTPServerRequestDuration
       /\ obs[r][8].inst = "return"

\* the measured requests that have passed the entry of the middleware (line
\* 247) and not its exit (line 289)
BetweenEntryAndExit ==
    {r \in Reqs : IsMeasured(r) /\ pc[r] \in {"pending", "panicked"}}

\* C27, the state: at every moment the in-flight counter summed over its label
\* sets is the number of measured requests past entry and not past exit, and
\* it is not negative.
C27_SumIsInFlight ==
    /\ InFlight = Cardinality(BetweenEntryAndExit)
    /\ InFlight >= 0

\* C27, the steps: a step of a bypassed request leaves the counter as it was.
C27_BypassedLeaveIt ==
    \A r \in Reqs :
       (pc'[r] # pc[r] /\ IsBypassed(r)') => activeRequests' = activeRequests

\* C27: under any interleaving of concurrent requests the in-flight counter
\* counts the measured requests between entry and exit, is never negative,
\* and is never changed by a bypassed request.
C27_InFlightCountsPending ==
    [](C27_SumIsInFlight) /\ [][C27_BypassedLeaveIt]_vars

\* all requests are measured and between entry and exit at once: the counter
\* stands at their number
C27_Witness ==
    /\ \A r \in Reqs : IsMeasured(r) /\ pc[r] = "pending"
    /\ InFlight = MaxReqs

\* C28: the +1 and the -1 a request applies to the in-flight counter carry
\* the same method, server address and scheme, whatever the wrapped handler
\* did to the request in between, so once the request has returned every
\* series of the counter is back at the value it had before.
C28_SameLabelsOnBothAdds ==
    \A r \in Reqs : (IsMeasured(r) /\ pc[r] = "done") =>
       LET calls == CallsOn(r, MetricHTTPServerActiveRequests)
       IN /\ Len(calls) = 2
          /\ calls[1].attrs = calls[2].attrs
          /\ (\A q \in Reqs \ {r} : pc[q] \in {"idle", "done"}) =>
               \A a \in DOMAIN activeRequests : activeRequests[a] = 0

\* --------------------------------------------- instruments of the application
\* histograms the application creates through the global meter provider,
\* named after the patterns of the views: a cost, a long cost, a request
\* duration, and one no pattern is meant for
ApplicationInstruments ==
    {Instrument("job.exec.cost", "Histogram", "s"),
     Instrument("job.long_exec.cost", "Histogram", "s"),
     Instrument("rpc.client.request.duration", "Histogram", "s"),
     Instrument("job.cost", "Histogram", "s")}

\* The application creates a histogram on the global meter provider, which
\* is the one New set (line 370): the views of lines 327-368 decide its
\* streams.
CreateHistogram(inst) ==
    /\ globalMeterProvider # 0
    /\ inst.Name \notin DOMAIN streams
    /\ streams' = WithStreams(streams, {inst})
    /\ UNCHANGED <<registries, globalMeterProvider, meterDelegate, providers,
                   metrics, panics, handled, served, request_vars>>

\* Constructions with the default configuration and the histograms the
\* application creates next to the middleware's.
NextViews ==
    \/ \E fails \in CreationFailures :
         Construct(ConfigWith(NilRegistry, NilRegistry, NilRegistry, "", ""),
                   fails, FALSE)
    \/ \E inst \in ApplicationInstruments : CreateHistogram(inst)

SpecViews == InitBoot /\ [][NextViews]_vars

\* the views that assign bucket boundaries, by their place in Views
BucketViews == {i \in 1..Len(Views) : Views[i].Boundaries # <<>>}

\* the bucket views whose name pattern matches a name
MatchingBucketViews(name) ==
    {i \in BucketViews : MatchName(Views[i].Suffix, name)}

\* C29: every instrument name matches at most one of the patterns
\* *long_exec.cost, *exec.cost, *request.duration and *body.size, so every
\* histogram created has one boundary set; each of the three histograms of
\* the middleware matches exactly one pattern.
C29_AtMostOnePattern ==
    /\ \A name \in DOMAIN streams :
         /\ Cardinality(MatchingBucketViews(name)) <= 1
         /\ Cardinality(streams[name]) = 1
    /\ \A name \in {MetricHTTPServerRequestDuration,
                    MetricHTTPServerRequestBodySize,
                    MetricHTTPServerResponseBodySize} :
         Cardinality(MatchingBucketViews(name)) = 1

\* ------------------------------------------------ revisions of the middleware
\* opentelemetry-meter.go line 48: the duration boundaries of the legacy
\* middleware, the defaults times 1000
LegacyReqDurBuckets ==
    InBytes(<<5, 10, 25, 50, 100, 250, 500, 1000, 2500, 5000, 10000>>)

\* opentelemetry-meter.go lines 359-388: the views of the legacy middleware
LegacyViews ==
    <<View("_duration", "", LegacyReqDurBuckets),
      View("request_size", "", reqSzBuckets),
      View("response_size", "", reqSzBuckets),
      View("", "Counter", <<>>)>>

\* otelmetric/opentelemetry-meter.go lines 57-90: the names of that revision
OtelmetricReqCnt == "requests_total"
OtelmetricReqDur == "request_duration_seconds"
OtelmetricResSz == "response_size_bytes"
OtelmetricReqSz == "request_size_bytes"

\* otelmetric/opentelemetry-meter.go lines 277-308: elapsed :=
\* float64(time.Since(start)) / float64(time.Millisecond), recorded as it is,
\* and the other three calls
OtelmetricExitCalls(ctx, status, t0, t1, sz, h, url) ==
    LET attrs == LegacyAttributes(ctx, status, url)
    IN <<Call(OtelmetricReqDur, t1 - t0, Millisecond, attrs),
         Call(OtelmetricReqCnt, 1, 1, attrs @@ ("host" :> h)),
         Call(OtelmetricReqSz, sz, 1, attrs),
         Call(OtelmetricResSz, ctx.Response.Size, 1, attrs)>>

\* lines 253-264: the middleware of otelmetric is invoked for request r and
\* calls next
OtelmetricEntry(r, req) ==
    /\ pc[r] = "idle"
    /\ LET ctx == NewContext(req) IN
       /\ c' = [c EXCEPT ![r] = ctx]
       /\ obs' = [obs EXCEPT ![r] = <<NextCall>>]
       /\ IF Bypass(config, ctx)
          THEN /\ pc' = [pc EXCEPT ![r] = "bypass"]
               /\ UNCHANGED locals
          ELSE /\ pc' = [pc EXCEPT ![r] = "otelmetric"]
               /\ start' = [start EXCEPT ![r] = now]
               /\ reqSz' = [reqSz EXCEPT ![r] =
                                computeApproximateRequestSize(ctx.Request)]
               /\ UNCHANGED host
    /\ UNCHANGED <<config, now, err, ret, instruments, lastScrape, process>>

\* lines 264-310: next returned to the middleware of otelmetric, which runs
\* to its return
OtelmetricExit(r, out) ==
    /\ pc[r] = "otelmetric"
    /\ LET ctx == AfterHandler(c[r], out)
           status == ResolveStatus(ctx.Response.Status, out.err)
           url == ApplyLabelMapping(
                      config.RequestCounterURLLabelMappingFunc, ctx)
           h == ApplyLabelMapping(
                    config.RequestCounterHostLabelMappingFunc, ctx)
           calls == OtelmetricExitCalls(ctx, status, start[r], now, reqSz[r],
                                        h, url)
       IN /\ c' = [c EXCEPT ![r] = ctx]
          /\ err' = [err EXCEPT ![r] = out.err]
          /\ obs' = [obs EXCEPT ![r] = @ \o calls \o <<ReturnCall>>]
          /\ ret' = [ret EXCEPT ![r] = ReturnValue(out.err)]
    /\ pc' = [pc EXCEPT ![r] = "done"]
    /\ UNCHANGED <<config, now, locals, instruments, lastScrape, process>>

\* One request at a time through the middleware of each revision, the clock
\* running.
NextRevisions ==
    \/ \E req \in Requests : Entry(1, req)
    \/ \E out \in HandlerOutcomes(c[1].Path, UserOutcomes) : Exit(1, out)
    \/ \E out \in HandlerOutcomes(c[1].Path, UserOutcomes) : BypassExit(1, out)
    \/ \E req \in Requests : LegacyEntry(1, req)
    \/ \E out \in HandlerOutcomes(c[1].Path, UserOutcomes) : LegacyExit(1, out)
    \/ \E req \in Requests : OtelmetricEntry(1, req)
    \/ \E out \in HandlerOutcomes(c[1].Path, UserOutcomes) :
         OtelmetricExit(1, out)
    \/ \E d \in TickSteps : Tick(d)

SpecRevisions == Init /\ [][NextRevisions]_vars

\* the one boundary set of a stream set
TheBoundaries(set) == CHOOSE b \in set : TRUE

\* the boundaries each revision applies to its duration histogram: by the
\* views of New, by the views of the legacy configureMetrics, and by the
\* selector of otelmetric (made with DefaultHistogramBoundaries reqDurBuckets)
DurationBoundaries(inst) ==
    CASE inst = MetricHTTPServerRequestDuration ->
           TheBoundaries(StreamBoundaries(Views, InstrumentNamed(inst)))
      [] inst = LegacyReqDur ->
           TheBoundaries(StreamBoundaries(
               LegacyViews, Instrument(inst, "Histogram", "ms")))
      [] inst = OtelmetricReqDur ->
           AggregatorFor("Histogram", "ms", reqDurBuckets)

DurationInstruments ==
    {MetricHTTPServerRequestDuration, LegacyReqDur, OtelmetricReqDur}

\* the same boundaries, one by one
SameBoundaries(a, b) ==
    /\ Len(a) = Len(b)
    /\ \A i \in 1..Len(a) : SameBoundary(a[i], b[i])

\* the boundaries 5..10000 and 0.005..10 of the claim
MillisecondScaled ==
    [i \in 1..11 |->
        Boundary(<<5, 10, 25, 50, 100, 250, 500, 1000, 2500, 5000, 10000>>[i],
                 1)]

SecondScaled ==
    [i \in 1..11 |->
        Boundary(<<5, 10, 25, 50, 100, 250, 500, 1000, 2500, 5000, 10000>>[i],
                 1000)]

\* a recorded value num/den is the elapsed time in milliseconds, or in
\* seconds, to the whole millisecond
ValueInMilliseconds(k, elapsed_us) ==
    k.num \div k.den = elapsed_us \div Millisecond

ValueInSeconds(k, elapsed_us) ==
    (k.num * 1000) \div k.den = elapsed_us \div Millisecond

\* C30: in every revision of the middleware, the value recorded on the
\* duration histogram when the handler returns is in the unit of the
\* boundaries applied to that histogram: milliseconds against 5..10000 or
\* seconds against 0.005..10.
C30_ExitStep ==
    \A r \in Reqs :
       (pc[r] \in {"pending", "legacy", "otelmetric"} /\ pc'[r] = "done") =>
          \A i \in 1..Len(obs'[r]) :
             LET k == obs'[r][i] IN
             k.inst \in DurationInstruments =>
                \/ /\ ValueInMilliseconds(k, now - start[r])
                   /\ SameBoundaries(DurationBoundaries(k.inst),
                                     MillisecondScaled)
                \/ /\ ValueInSeconds(k, now - start[r])
                   /\ SameBoundaries(DurationBoundaries(k.inst), SecondScaled)

C30_ValuesInUnitOfBoundaries == [][C30_ExitStep]_vars

====
